---- MODULE Spec2Model ----
(***************************************************************************)
(* A model of the script-loading and initialization code of the           *)
(* replica-replay SDK: initSessionReplay, loadScript,                      *)
(* detectEnvironmentVariables, getSessionReplayConfig and the Vue plugin   *)
(* of src/src/index.js, loadSessionReplayScript with its four loading      *)
(* methods and waitForRrweb of src/src/browser.js, the auto-initialization *)
(* of src/src/cdn.js, and the setup wizard of CDN_IMPLEMENTATION_GUIDE.md. *)
(*                                                                         *)
(* JavaScript values are records [t, v]: t is the value's type tag and v   *)
(* its text.  A config object maps each of its five keys to such a value;  *)
(* a key the object does not have maps to Absent.  The event loop is       *)
(* modelled by one action per task: a call of initSessionReplay up to its  *)
(* first suspension, the load or error event of a script element, the      *)
(* firing of a backoff timer, and for the loader the settling of the       *)
(* loading method in flight.  A task runs together with the promise        *)
(* continuations it releases, which no other task can interleave with.     *)
(* The continuation of SessionReplayPlugin.install after its await is an   *)
(* action of its own.  Under every specification but SpecThrow the         *)
(* callbacks onSuccess and onError return normally.  A URL is the sequence *)
(* of its "/"-separated pieces, so that building one and taking one apart  *)
(* are distinct computations.                                              *)
(***************************************************************************)
EXTENDS Integers, Sequences, FiniteSets, TLC

VARIABLES
    env,      \* process.env: prefix -> [projectKey, secretKey]
    plan,     \* the argument of each initSessionReplay call of the page (NoCall: never called)
    calls,    \* the state of each initSessionReplay call
    head,     \* document.head: the script elements appended, in order
    net,      \* what the network currently lets each loading method do
    rrweb,    \* whether window.rrweb is present
    ldr,      \* the state of the loadSessionReplayScript call
    got,      \* what the latest call of getSessionReplayConfig returned
    app,      \* app.config.globalProperties.$replay of the Vue app of each install
    cdn,      \* the CDN bundle: its script tag, the document's readiness, what it has run
    wt,       \* the state of the waitForRrweb call
    fs        \* the setup wizard and the .gitignore file it may append to

vars == <<env, plan, calls, head, net, rrweb, ldr, got, app, cdn, wt, fs>>

\* the state outside the page's initialization code
others == <<app, cdn, wt, fs>>

----------------------------------------------------------------------------
(* Bounds of the model *)

\* the number of initSessionReplay calls a page may make
MaxCalls == 2

\* the number of environment variables set in process.env
MaxEnvSet == 2

\* the milliseconds the clock may advance after a call of waitForRrweb
MaxElapsed == 300

\* the runs of the setup wizard in one project directory
MaxRuns == 2

\* the lines of the .gitignore file the wizard finds
MaxLines == 2

Calls == 1..MaxCalls

----------------------------------------------------------------------------
(* JavaScript values *)

Absent == [t |-> "absent", v |-> ""]

Str(s) == [t |-> "string", v |-> s]

Num(s) == [t |-> "number", v |-> s]

Fn(s) == [t |-> "function", v |-> s]

Null == [t |-> "null", v |-> ""]

\* ToBoolean as used by !x, x && y, x || y and if (x)
Truthy(x) ==
    CASE x.t = "string" -> x.v # ""
      [] x.t = "number" -> x.v # "0"
      [] x.t = "function" -> TRUE
      [] OTHER -> FALSE

\* typeof x === 'string'
IsString(x) == x.t = "string"

ConfigKeys == {"projectKey", "secretKey", "serverUrl", "onSuccess", "onError"}

\* the object {}
EmptyObject == [k \in ConfigKeys |-> Absent]

\* the object spread {...base, ...over}: an own key of over wins
Spread(base, over) ==
    [k \in ConfigKeys |-> IF over[k] # Absent THEN over[k] ELSE base[k]]

\* String.prototype.split('/') on the strings of the model: the pieces between
\* the slashes of s
Segs(s) ==
    CASE s = "https://rrweb-ingest-825071668012.us-central1.run.app"
            -> <<"https:", "", "rrweb-ingest-825071668012.us-central1.run.app">>
      [] s = "https://custom.example" -> <<"https:", "", "custom.example">>
      [] s = "https://custom.example/api" -> <<"https:", "", "custom.example", "api">>
      [] s = "https://cdn.example/app.js" -> <<"https:", "", "cdn.example", "app.js">>
      [] s = "http://[/s/a/b.js" -> <<"http:", "", "[", "s", "a", "b.js">>
      [] OTHER -> <<s>>

\* the result of getSessionReplayConfig before it was ever called
NotCalled ==
    [res |-> "not called", projectKey |-> Absent, secretKey |-> Absent, serverUrl |-> <<>>]

----------------------------------------------------------------------------
(* detectEnvironmentVariables, src/src/index.js:12-25 *)

prefixes == <<"REACT_APP_", "NEXT_PUBLIC_", "VITE_", "PUBLIC_">>

EnvKeys == {"projectKey", "secretKey"}

\* the value process.env holds for a variable that is set
EnvValue(p, k) == Str(prefixes[p] \o k)

\* process.env with no variable set
NoEnv == [p \in 1..Len(prefixes) |-> [k \in EnvKeys |-> Absent]]

\* the snapshots of process.env with at most MaxEnvSet variables set
Envs ==
    LET Slots == (1..Len(prefixes)) \X EnvKeys
        Chosen == {S \in SUBSET Slots : Cardinality(S) <= MaxEnvSet}
    IN {[p \in 1..Len(prefixes) |->
            [k \in EnvKeys |-> IF <<p, k>> \in S THEN EnvValue(p, k) ELSE Absent]]
        : S \in Chosen}

\* every snapshot of process.env
AllEnvs ==
    LET Slots == (1..Len(prefixes)) \X EnvKeys
    IN {[p \in 1..Len(prefixes) |->
            [k \in EnvKeys |-> IF <<p, k>> \in S THEN EnvValue(p, k) ELSE Absent]]
        : S \in SUBSET Slots}

\* DetectFrom taking each key from the first prefix that sets it
DetectMixed(e, p) ==
    LET P == {q \in p..Len(prefixes) : Truthy(e[q].projectKey)}
        S == {q \in p..Len(prefixes) : Truthy(e[q].secretKey)}
        Min(Q) == CHOOSE q \in Q : \A r \in Q : q <= r
    IN IF P = {} \/ S = {} THEN EmptyObject
       ELSE [EmptyObject EXCEPT !.projectKey = e[Min(P)].projectKey,
                                !.secretKey = e[Min(S)].secretKey]

RECURSIVE DetectFrom(_, _)
DetectFrom(e, p) ==
    IF p > Len(prefixes) THEN EmptyObject
    ELSE IF Truthy(e[p].projectKey) /\ Truthy(e[p].secretKey)
         THEN [EmptyObject EXCEPT !.projectKey = e[p].projectKey,
                                  !.secretKey = e[p].secretKey]
         ELSE DetectFrom(e, p + 1)

detectEnvironmentVariables(e) == DetectFrom(e, 1)

----------------------------------------------------------------------------
(* Errors, messages and observed events *)

NoError == [kind |-> "none", msg |-> "", attempt |-> 0]

\* new Error(msg), created while attempt number `attempt` was running (0: before any)
Error(msg, attempt) == [kind |-> "Error", msg |-> msg, attempt |-> attempt]

\* one observed event of a call: what happened, during which attempt, with which
\* text, and the number the event carries (a delay in ms, the attempts a message names)
Ev(e, attempt, text, num) == [ev |-> e, attempt |-> attempt, text |-> text, num |-> num]

----------------------------------------------------------------------------
(* The network, as the loading methods see it *)

methods == <<"tag", "fetch", "xhr", "import">>

\* what a loading method does when it settles: it fails ("throw"), it completes
\* without defining window.rrweb ("nosym"), or it completes and defines it ("sym")
Outcome == {"throw", "nosym", "sym"}

Method == {methods[k] : k \in 1..Len(methods)}

\* loadViaXHR (src/src/browser.js:546-564) evaluates the response inside
\* xhr.onload: when the evaluated script throws ("evalthrow") the exception
\* leaves the event handler and the method's promise is never settled.  In
\* loadViaFetch the same exception rejects the async function: it is a "throw".
Worlds ==
    {w \in [Method -> Outcome \cup {"evalthrow"}] :
        \A m \in Method \ {"xhr"} : w[m] \in Outcome}

\* the networks an attempt of initSessionReplay may run on: the script element
\* loads (with or without the library in it) or fails, and each method that
\* initSessionReplay does not use would either fail or load the library
AttemptWorlds == {w \in Worlds : \A m \in Method \ {"tag"} : w[m] \in {"throw", "sym"}}

----------------------------------------------------------------------------
(* initSessionReplay and loadScript, src/src/index.js:32-123 *)

maxRetries == 3

DefaultServerUrl == Str("https://rrweb-ingest-825071668012.us-central1.run.app")

NoCall == [k \in ConfigKeys |-> [t |-> "nocall", v |-> ""]]

\* arguments of initSessionReplay that are not objects: null, a string, a number
NullArg == [k \in ConfigKeys |-> [t |-> "null argument", v |-> ""]]
StringArg == [k \in ConfigKeys |-> [t |-> "string argument", v |-> "abc"]]
NumberArg == [k \in ConfigKeys |-> [t |-> "number argument", v |-> "7"]]

KeyInputs(name) == {Absent, Str(""), Num("7"), Str(name)}

\* the config objects a caller may pass
Configs ==
    {[projectKey |-> pk, secretKey |-> sk, serverUrl |-> su, onSuccess |-> os, onError |-> oe] :
        pk \in KeyInputs("pk"), sk \in KeyInputs("sk"),
        su \in {Absent, Str("https://custom.example")},
        os \in {Absent, Fn("onSuccess")}, oe \in {Absent, Fn("onError")}}

IdleCall ==
    [pc |-> "idle", i |-> 0, config |-> EmptyObject, lastError |-> NoError,
     error |-> NoError, log |-> <<>>]

\* lines 73-77: the environment is consulted only when a key is missing
MergeEnv(config, e) ==
    IF ~Truthy(config.projectKey) \/ ~Truthy(config.secretKey)
    THEN Spread(detectEnvironmentVariables(e), config)
    ELSE config

\* Validate without the typeof checks: any truthy key passes
ValidateTruthyOnly(config) ==
    IF ~Truthy(config.projectKey)
    THEN Error("projectKey is required", 0)
    ELSE IF ~Truthy(config.secretKey)
         THEN Error("secretKey is required", 0)
         ELSE NoError

\* lines 84-90: the error the validation throws, NoError when it passes
Validate(config) ==
    IF ~Truthy(config.projectKey) \/ ~IsString(config.projectKey)
    THEN Error("projectKey is required", 0)
    ELSE IF ~Truthy(config.secretKey) \/ ~IsString(config.secretKey)
         THEN Error("secretKey is required", 0)
         ELSE NoError

\* lines 93-94
FinalConfig(config) ==
    [config EXCEPT !.serverUrl = IF Truthy(config.serverUrl) THEN config.serverUrl
                                 ELSE DefaultServerUrl]

\* ScriptSrc with the two keys in the other order
ScriptSrcSwapped(config) ==
    Segs(config.serverUrl.v) \o <<"s">> \o Segs(config.secretKey.v)
        \o Segs(config.projectKey.v) \o <<"init.js">>

\* line 35: the script URL, as its "/"-separated pieces
ScriptSrc(config) ==
    Segs(config.serverUrl.v) \o <<"s">> \o Segs(config.projectKey.v)
        \o Segs(config.secretKey.v) \o <<"init.js">>

\* lines 34-37: the script element of attempt number n of call c
ScriptElement(c, config, n) ==
    [src |-> ScriptSrc(config), call |-> c, attempt |-> n]

\* a callback of the caller that throws when it is called
Thrower == Fn("throws")

CallbackThrows(f) == f = Thrower

\* lines 41-45, 50-55: the callback is called first; when it throws, the
\* exception leaves the event handler and the resolve() or reject() after it
\* is never reached
ThrownInHandler(events) ==
    <<events[1], Ev("uncaught", events[1].attempt, "callback threw in the event handler", 0)>>

\* lines 39-46: what script.onload does, in order
OnLoadEvents(config, n) ==
    <<IF Truthy(config.onSuccess)
      THEN Ev("onSuccess", n, "Session replay initialized successfully", 0)
      ELSE Ev("console.log", n, "Session replay initialized successfully", 0),
      Ev("resolve", n, "", 0)>>

\* lines 48-56: what script.onerror does, in order
OnErrorEvents(config, n) ==
    <<IF Truthy(config.onError)
      THEN Ev("onError", n, "Failed to load session replay script", 0)
      ELSE Ev("console.error", n, "Failed to load session replay script", 0)>>

\* RetryAllowed letting the last attempt retry too
RetryAllowedOffByOne(i) == i < maxRetries

\* line 107: whether a failed attempt with loop index i is followed by another
RetryAllowed(i) == i < maxRetries - 1

\* BackoffDelay with a fixed delay
BackoffDelayFixed(i) == 1000 + 0 * i

\* line 108
BackoffDelay(i) == 1000 * (i + 1)

\* lines 109-110
BackoffEvents(i) ==
    <<Ev("console.warn", i + 1, "load attempt failed, retrying", BackoffDelay(i)),
      Ev("delay", i + 1, "setTimeout", BackoffDelay(i))>>

\* lines 116-122: the end of the function when the loop has run out
ExhaustedEvents(config, lastError) ==
    <<IF Truthy(config.onError)
      THEN Ev("onError", lastError.attempt, "Session replay failed to load after attempts", maxRetries)
      ELSE Ev("console.error", lastError.attempt, "Session replay failed to load after attempts", maxRetries),
      Ev("reject", lastError.attempt, lastError.msg, 0)>>

\* ExhaustedError throwing a new error made of the final message
ExhaustedErrorFresh(lastError) ==
    Error("Session replay failed to load after attempts", lastError.attempt)

\* line 122: the value the returned promise is rejected with
ExhaustedError(lastError) == lastError

\* StartAttempt taking the call's earlier script elements out of the document
StartAttemptReplacing(c, call, n) ==
    /\ head' = Append(SelectSeq(head, LAMBDA el : el.call # c), ScriptElement(c, call.config, n))
    /\ \E w \in AttemptWorlds : net' = w
    /\ calls' = [calls EXCEPT ![c] =
                    [call EXCEPT !.pc = "loading", !.i = n - 1,
                                 !.log = Append(call.log, Ev("append", n, "script", 0))]]

\* line 102, up to the suspension: loadScript appends the element and waits
StartAttempt(c, call, n) ==
    /\ head' = Append(head, ScriptElement(c, call.config, n))
    /\ \E w \in AttemptWorlds : net' = w
    /\ calls' = [calls EXCEPT ![c] =
                    [call EXCEPT !.pc = "loading", !.i = n - 1,
                                 !.log = Append(call.log, Ev("append", n, "script", 0))]]

\* line 74: reading config.projectKey throws when config is null
ReadThrows(arg) == arg = NullArg

\* the five properties initSessionReplay reads, as the argument has them: a
\* string or a number has none of them
OwnProps(arg) == IF arg \in {StringArg, NumberArg} THEN EmptyObject ELSE arg

\* line 80: config is an object once the merge of line 76 has made it one, or
\* when the caller passed one
IsObject(arg, e) ==
    \/ arg \notin {NullArg, StringArg, NumberArg}
    \/ ~Truthy(OwnProps(arg).projectKey) \/ ~Truthy(OwnProps(arg).secretKey)

\* lines 72-102: the body of initSessionReplay(arg) as call c, up to its first
\* suspension or its rejection
InitBody(c, arg) ==
    IF ReadThrows(arg)
    THEN /\ calls' = [calls EXCEPT ![c] =
                        [@ EXCEPT !.pc = "rejected",
                                  !.error = Error("TypeError: cannot read properties of null", 0),
                                  !.log = <<Ev("reject", 0, "TypeError: cannot read properties of null", 0)>>]]
         /\ UNCHANGED <<head, net>>
    ELSE LET config == MergeEnv(OwnProps(arg), env)
             verr == IF ~IsObject(arg, env)
                     THEN Error("Configuration object is required", 0)
                     ELSE Validate(config)
         IN IF verr # NoError
            THEN /\ calls' = [calls EXCEPT ![c] =
                                [@ EXCEPT !.pc = "rejected", !.config = config, !.error = verr,
                                          !.log = <<Ev("reject", 0, verr.msg, 0)>>]]
                 /\ UNCHANGED <<head, net>>
            ELSE StartAttempt(c, [calls[c] EXCEPT !.config = FinalConfig(config)], 1)

\* InitCall joining a call in flight for the same URL instead of loading again
InitCallCoalesced(c) ==
    /\ plan[c] # NoCall
    /\ calls[c].pc = "idle"
    /\ LET config == MergeEnv(plan[c], env)
           verr == Validate(config)
       IN IF verr # NoError
          THEN /\ calls' = [calls EXCEPT ![c] =
                              [@ EXCEPT !.pc = "rejected", !.config = config, !.error = verr,
                                        !.log = <<Ev("reject", 0, verr.msg, 0)>>]]
               /\ UNCHANGED <<head, net>>
          ELSE IF \E d \in Calls : /\ calls[d].pc \in {"loading", "backoff"}
                                   /\ calls[d].config = FinalConfig(config)
               THEN /\ calls' = [calls EXCEPT ![c] =
                                   [@ EXCEPT !.pc = "resolved", !.config = FinalConfig(config),
                                             !.log = <<Ev("resolve", 0, "", 0)>>]]
                    /\ UNCHANGED <<head, net>>
               ELSE StartAttempt(c, [calls[c] EXCEPT !.config = FinalConfig(config)], 1)
    /\ UNCHANGED <<env, plan, rrweb, ldr, got, others>>

\* lines 72-102: the call, up to its first suspension or its rejection
InitCall(c) ==
    /\ plan[c] # NoCall
    /\ calls[c].pc = "idle"
    /\ InitBody(c, plan[c])
    /\ UNCHANGED <<env, plan, rrweb, ldr, got, others>>

\* AttemptLoads with the attempt falling back on the other loading methods
AttemptLoadsAnyMethod(w) == \E m \in Method : w[m] # "throw"

\* lines 39-58: an attempt is settled by the events of its script element alone
AttemptLoads(w) == w["tag"] # "throw"

\* ScriptLoad without the return of line 103: the loop goes round again
ScriptLoadNoReturn(c) ==
    /\ calls[c].pc = "loading"
    /\ AttemptLoads(net)
    /\ LET call == [calls[c] EXCEPT !.log = @ \o OnLoadEvents(calls[c].config, calls[c].i + 1)]
       IN IF RetryAllowed(call.i)
          THEN StartAttempt(c, call, call.i + 2)
          ELSE /\ calls' = [calls EXCEPT ![c] = [call EXCEPT !.pc = "resolved"]]
               /\ UNCHANGED <<head, net>>
    /\ UNCHANGED <<env, plan, rrweb, ldr, got, others>>

\* the load event of the script element of the attempt in flight: lines 39-46, 103
ScriptLoad(c) ==
    /\ calls[c].pc = "loading"
    /\ AttemptLoads(net)
    /\ calls' = [calls EXCEPT ![c] =
                    IF CallbackThrows(calls[c].config.onSuccess)
                    THEN [@ EXCEPT !.pc = "pending forever",
                                   !.log = @ \o ThrownInHandler(OnLoadEvents(calls[c].config,
                                                                            calls[c].i + 1))]
                    ELSE [@ EXCEPT !.pc = "resolved",
                                   !.log = @ \o OnLoadEvents(calls[c].config, calls[c].i + 1)]]
    /\ UNCHANGED <<env, plan, head, net, rrweb, ldr, got, others>>

\* ScriptError with an onerror that reports the failure and does not reject
ScriptErrorSwallowed(c) ==
    /\ calls[c].pc = "loading"
    /\ ~AttemptLoads(net)
    /\ calls' = [calls EXCEPT ![c] =
                    [@ EXCEPT !.pc = "stalled",
                              !.log = @ \o OnErrorEvents(calls[c].config, calls[c].i + 1)]]
    /\ UNCHANGED <<env, plan, head, net, rrweb, ldr, got, others>>

\* the error event of the script element of the attempt in flight: lines 48-56, 104-122
ScriptError(c) ==
    /\ calls[c].pc = "loading"
    /\ ~AttemptLoads(net)
    /\ LET call == calls[c]
           n == call.i + 1
           error == Error("Failed to load session replay script", n)
           seen == call.log \o OnErrorEvents(call.config, n)
       IN calls' = [calls EXCEPT ![c] =
              IF CallbackThrows(call.config.onError)
              THEN [call EXCEPT !.pc = "pending forever",
                                !.log = call.log \o ThrownInHandler(OnErrorEvents(call.config, n))]
              ELSE IF RetryAllowed(call.i)
              THEN [call EXCEPT !.pc = "backoff", !.lastError = error,
                                !.log = seen \o BackoffEvents(call.i)]
              ELSE [call EXCEPT !.pc = "rejected", !.i = call.i + 1, !.lastError = error,
                                !.error = ExhaustedError(error),
                                !.log = seen \o ExhaustedEvents(call.config, error)]]
    /\ UNCHANGED <<env, plan, head, net, rrweb, ldr, got, others>>

\* the backoff timer fires: line 110 resumes, the loop goes round, line 102
BackoffFire(c) ==
    /\ calls[c].pc = "backoff"
    /\ StartAttempt(c, calls[c], calls[c].i + 2)
    /\ UNCHANGED <<env, plan, rrweb, ldr, got, others>>

IdleLoader == [pc |-> "idle", inflight |-> {}, error |-> NoError, log |-> <<>>]

\* lines 129-146: $replay of an app SessionReplayPlugin has not written to
NoReplay == [install |-> "pending", initialized |-> "unset", config |-> NoCall, error |-> ""]

\* a page without the CDN bundle
NoBundle ==
    [pc |-> "absent", readyState |-> "loading", named |-> FALSE, url |-> EmptyObject,
     data |-> EmptyObject, autoInit |-> Null, runs |-> 0, when |-> "", inits |-> <<>>,
     handled |-> FALSE]

\* waitForRrweb has not been called
NoWait ==
    [pc |-> "idle", timeout |-> 0, elapsed |-> 0, lastPoll |-> 0, timer |-> FALSE,
     log |-> <<>>]

\* the setup wizard has not run
NoWizard ==
    [runs |-> 0, keyMethod |-> "", autoInstall |-> FALSE, fails |-> "none",
     exists |-> FALSE, content |-> <<>>, updates |-> 0, writes |-> 0, exit |-> "none"]

OthersIdle ==
    /\ app = [c \in Calls |-> NoReplay]
    /\ cdn = NoBundle
    /\ wt = NoWait
    /\ fs = NoWizard

\* one call of initSessionReplay on a page, with any config and environment
Init ==
    /\ env \in Envs
    /\ \E config \in Configs :
          plan = [c \in Calls |-> IF c = 1 THEN config ELSE NoCall]
    /\ calls = [c \in Calls |-> IdleCall]
    /\ head = <<>>
    /\ net = [m \in Method |-> "throw"]
    /\ rrweb = FALSE
    /\ ldr = IdleLoader
    /\ got = NotCalled
    /\ OthersIdle

Next ==
    \E c \in Calls :
        \/ InitCall(c)
        \/ ScriptLoad(c)
        \/ ScriptError(c)
        \/ BackoffFire(c)

Spec == Init /\ [][Next]_vars

\* the valid configs of the calls of a page that calls more than once
PageConfigs ==
    {[EmptyObject EXCEPT !.projectKey = Str("pk"), !.secretKey = Str("sk")],
     [EmptyObject EXCEPT !.projectKey = Str("pk2"), !.secretKey = Str("sk2"),
                         !.serverUrl = Str("https://custom.example")],
     [EmptyObject EXCEPT !.projectKey = Str("pk"), !.secretKey = Str("sk"),
                         !.serverUrl = Str("https://custom.example/api")]}

\* the two calls of the page
PageCalls == {1, 2}

\* both calls of the page are made, each with a valid config, in any order and
\* at any time
InitPage ==
    /\ env = NoEnv
    /\ \E p \in [PageCalls -> PageConfigs] :
          plan = [c \in Calls |-> IF c \in PageCalls THEN p[c] ELSE NoCall]
    /\ calls = [c \in Calls |-> IdleCall]
    /\ head = <<>>
    /\ net = [m \in Method |-> "throw"]
    /\ rrweb = FALSE
    /\ ldr = IdleLoader
    /\ got = NotCalled
    /\ OthersIdle

\* the network changes while script elements are loading: the elements of two
\* calls in flight need not meet the same fate
NetShift ==
    /\ \E c \in Calls : calls[c].pc = "loading"
    /\ \E o \in {"throw", "sym"} \ {net["tag"]} : net' = [net EXCEPT !["tag"] = o]
    /\ UNCHANGED <<env, plan, calls, head, rrweb, ldr, got, others>>

NextPage ==
    \/ \E c \in Calls : InitCall(c) \/ ScriptLoad(c) \/ ScriptError(c) \/ BackoffFire(c)
    \/ NetShift

SpecPage == InitPage /\ [][NextPage]_vars

\* the page under the browser's guarantees: an appended script element fires
\* load or error, and a timer that was set fires; both calls load the same URL
InitPageLive ==
    /\ InitPage
    /\ plan[1] = plan[2]

SpecPageLive ==
    /\ InitPageLive /\ [][NextPage]_vars
    /\ \A c \in PageCalls : WF_vars(ScriptLoad(c) \/ ScriptError(c))
    /\ \A c \in PageCalls : WF_vars(BackoffFire(c))

\* one call of initSessionReplay with valid keys; each callback is absent,
\* returns normally, or throws
InitThrow ==
    /\ env = NoEnv
    /\ \E os \in {Absent, Fn("onSuccess"), Thrower}, oe \in {Absent, Fn("onError"), Thrower},
          su \in {Absent, Str("https://custom.example")} :
          plan = [c \in Calls |->
                    IF c = 1
                    THEN [projectKey |-> Str("pk"), secretKey |-> Str("sk"), serverUrl |-> su,
                          onSuccess |-> os, onError |-> oe]
                    ELSE NoCall]
    /\ calls = [c \in Calls |-> IdleCall]
    /\ head = <<>>
    /\ net = [m \in Method |-> "throw"]
    /\ rrweb = FALSE
    /\ ldr = IdleLoader
    /\ got = NotCalled
    /\ OthersIdle

\* every script element fires load or error and every backoff timer fires
SpecThrow ==
    /\ InitThrow /\ [][Next]_vars
    /\ \A c \in Calls : WF_vars(ScriptLoad(c) \/ ScriptError(c))
    /\ \A c \in Calls : WF_vars(BackoffFire(c))

\* one call of initSessionReplay whose argument is not an object
InitArg ==
    /\ env \in Envs
    /\ \E arg \in {NullArg, StringArg, NumberArg} :
          plan = [c \in Calls |-> IF c = 1 THEN arg ELSE NoCall]
    /\ calls = [c \in Calls |-> IdleCall]
    /\ head = <<>>
    /\ net = [m \in Method |-> "throw"]
    /\ rrweb = FALSE
    /\ ldr = IdleLoader
    /\ got = NotCalled
    /\ OthersIdle

SpecArg == InitArg /\ [][Next]_vars

\* one call of initSessionReplay that supplies no key, under any environment
InitResolve ==
    /\ env \in AllEnvs
    /\ \E su \in {Absent, Str("https://custom.example")} :
          plan = [c \in Calls |-> IF c = 1 THEN [EmptyObject EXCEPT !.serverUrl = su]
                                  ELSE NoCall]
    /\ calls = [c \in Calls |-> IdleCall]
    /\ head = <<>>
    /\ net = [m \in Method |-> "throw"]
    /\ rrweb = FALSE
    /\ ldr = IdleLoader
    /\ got = NotCalled
    /\ OthersIdle

NextResolve == \E c \in Calls : InitCall(c)

SpecResolve == InitResolve /\ [][NextResolve]_vars

----------------------------------------------------------------------------
(* SessionReplayPlugin.install, src/src/index.js:129-146 *)

core == <<env, plan, calls, head, net, rrweb, ldr, got>>

\* InstallSettle without the try/catch around the await
InstallSettleNoCatch(c) ==
    /\ calls[c].pc \in {"resolved", "rejected"}
    /\ app[c].install = "pending"
    /\ app' = [app EXCEPT ![c] =
                  IF calls[c].pc = "resolved"
                  THEN [install |-> "fulfilled", initialized |-> "true",
                        config |-> plan[c], error |-> ""]
                  ELSE [@ EXCEPT !.install = "rejected"]]
    /\ UNCHANGED <<core, cdn, wt, fs>>

\* lines 131-144: install, resumed when the promise of its initSessionReplay
\* call (call c of the page) has settled
InstallSettle(c) ==
    /\ calls[c].pc \in {"resolved", "rejected"}
    /\ app[c].install = "pending"
    /\ app' = [app EXCEPT ![c] =
                  IF calls[c].pc = "resolved"
                  THEN [install |-> "fulfilled", initialized |-> "true",
                        config |-> plan[c], error |-> ""]
                  ELSE [install |-> "fulfilled", initialized |-> "false",
                        config |-> NoCall, error |-> calls[c].error.msg]]
    /\ UNCHANGED <<core, cdn, wt, fs>>

\* app.use(SessionReplayPlugin, config) with any config, no environment variables
InitPlugin ==
    /\ env = NoEnv
    /\ \E config \in Configs :
          plan = [c \in Calls |-> IF c = 1 THEN config ELSE NoCall]
    /\ calls = [c \in Calls |-> IdleCall]
    /\ head = <<>>
    /\ net = [m \in Method |-> "throw"]
    /\ rrweb = FALSE
    /\ ldr = IdleLoader
    /\ got = NotCalled
    /\ OthersIdle

NextPlugin ==
    \E c \in Calls :
        InitCall(c) \/ ScriptLoad(c) \/ ScriptError(c) \/ BackoffFire(c) \/ InstallSettle(c)

SpecPlugin == InitPlugin /\ [][NextPlugin]_vars

----------------------------------------------------------------------------
(* The CDN bundle, src/src/cdn.js *)

\* lines 14-32: getUrlParams for the bundle's script tag when the lookup of
\* lines 15-16 finds it: a parameter the URL does not carry is null
getUrlParams(found) ==
    IF found THEN [cdn.url EXCEPT !.onSuccess = Absent, !.onError = Absent] ELSE EmptyObject

\* line 23: autoInit of the result of getUrlParams; undefined when the tag was
\* not found
UrlAutoInit(found) ==
    IF ~found THEN "undefined" ELSE IF cdn.autoInit # Str("false") THEN "true" ELSE "false"

\* lines 38-50: getDataAttributes; an attribute the tag does not carry is undefined
getDataAttributes(found) == IF found THEN cdn.data ELSE EmptyObject

\* line 79: whether autoInitialize goes on to call init
AutoInitWanted(found) ==
    /\ UrlAutoInit(found) # "false"
    /\ Truthy(getUrlParams(found).projectKey) \/ Truthy(getDataAttributes(found).projectKey)

\* lines 80-91: the config autoInitialize builds
AutoInitConfig(found) ==
    [Spread(getDataAttributes(found), getUrlParams(found))
        EXCEPT !.onSuccess = Fn("onSuccess"), !.onError = Fn("onError")]

\* lines 71-104: autoInitialize, run in the document state doc; found tells
\* whether document.currentScript or the selector script[src*="replica-replay"]
\* gives the bundle's tag.  The call of line 98 is call 1 of the page; its
\* promise is dropped.
autoInitialize(doc, found, when) ==
    IF AutoInitWanted(found)
    THEN /\ cdn' = [doc EXCEPT !.pc = "done", !.runs = @ + 1, !.when = when,
                               !.inits = Append(@, AutoInitConfig(found)),
                               !.handled = FALSE]
         /\ plan' = [plan EXCEPT ![1] = AutoInitConfig(found)]
         /\ InitBody(1, AutoInitConfig(found))
    ELSE /\ cdn' = [doc EXCEPT !.pc = "done", !.runs = @ + 1, !.when = when]
         /\ UNCHANGED <<plan, calls, head, net>>

\* Evaluate running autoInitialize at once whatever the document's state
EvaluateEager ==
    /\ cdn.pc = "absent"
    /\ autoInitialize(cdn, TRUE, "immediately")
    /\ UNCHANGED <<env, rrweb, ldr, got, app, wt, fs>>

\* lines 106-161: the bundle is evaluated: window.ReplicaReplay is set up, and
\* autoInitialize runs now or is registered for DOMContentLoaded
Evaluate ==
    /\ cdn.pc = "absent"
    /\ IF cdn.readyState = "loading"
       THEN /\ cdn' = [cdn EXCEPT !.pc = "listening"]
            /\ UNCHANGED <<plan, calls, head, net>>
       ELSE autoInitialize(cdn, TRUE, "immediately")
    /\ UNCHANGED <<env, rrweb, ldr, got, app, wt, fs>>

\* the document fires DOMContentLoaded: the listener of line 158, if
\* registered, runs autoInitialize; document.currentScript is null then, so
\* the tag is found only through the selector
DomContentLoaded ==
    /\ cdn.readyState = "loading"
    /\ IF cdn.pc = "listening"
       THEN autoInitialize([cdn EXCEPT !.readyState = "interactive"], cdn.named,
                           "DOMContentLoaded")
       ELSE /\ cdn' = [cdn EXCEPT !.readyState = "interactive"]
            /\ UNCHANGED <<plan, calls, head, net>>
    /\ UNCHANGED <<env, rrweb, ldr, got, app, wt, fs>>

\* the window's load event: the document is complete
WindowLoad ==
    /\ cdn.readyState = "interactive"
    /\ cdn' = [cdn EXCEPT !.readyState = "complete"]
    /\ UNCHANGED <<core, app, wt, fs>>

\* the script tags a page may load the bundle with
BundleTags ==
    {[NoBundle EXCEPT !.named = nm, !.autoInit = ai,
                      !.url = [EmptyObject EXCEPT !.projectKey = upk, !.secretKey = usk,
                                                  !.serverUrl = usu],
                      !.data = [EmptyObject EXCEPT !.projectKey = dpk, !.secretKey = dsk,
                                                   !.serverUrl = dsu]] :
        nm \in BOOLEAN, ai \in {Null, Str("false"), Str("true")},
        upk \in {Null, Str("pk")}, usk \in {Null, Str("sk")},
        usu \in {Null, Str("https://custom.example")},
        dpk \in {Absent, Str("pk2")}, dsk \in {Absent, Str("sk2")},
        dsu \in {Absent, Str("https://custom.example/api")}}

\* a page that loads the bundle with one of the tags; no bundler has put
\* environment variables in
InitCdn ==
    /\ env = NoEnv
    /\ plan = [c \in Calls |-> NoCall]
    /\ calls = [c \in Calls |-> IdleCall]
    /\ head = <<>>
    /\ net = [m \in Method |-> "throw"]
    /\ rrweb = FALSE
    /\ ldr = IdleLoader
    /\ got = NotCalled
    /\ app = [c \in Calls |-> NoReplay]
    /\ cdn \in BundleTags
    /\ wt = NoWait
    /\ fs = NoWizard

NextCdn ==
    \/ Evaluate
    \/ DomContentLoaded
    \/ WindowLoad
    \/ \E c \in Calls : ScriptLoad(c) \/ ScriptError(c) \/ BackoffFire(c)

SpecCdn == InitCdn /\ [][NextCdn]_vars

----------------------------------------------------------------------------
(* waitForRrweb, src/src/browser.js:586-613 *)

\* line 612: the period of the polling timer, in milliseconds
PollInterval == 100

\* the timeouts a caller passes, in milliseconds
Timeouts == {0, 100, 150}

\* lines 586-588
isRrwebAvailable == rrweb

\* lines 596-603: the call; when rrweb is there it resolves at once and sets
\* no timer
WaitCall ==
    /\ wt.pc = "idle"
    /\ \E timeout \in Timeouts :
          wt' = IF isRrwebAvailable
                THEN [wt EXCEPT !.pc = "resolved", !.timeout = timeout,
                                !.log = <<Ev("resolve", 0, "", 0)>>]
                ELSE [wt EXCEPT !.pc = "polling", !.timeout = timeout, !.timer = TRUE,
                                !.log = <<Ev("setInterval", 0, "", PollInterval)>>]
    /\ UNCHANGED <<core, app, cdn, fs>>

\* Poll with the timeout looked at before the availability
PollTimeoutFirst ==
    /\ wt.timer
    /\ wt.elapsed - wt.lastPoll >= PollInterval
    /\ LET polled == Append(wt.log, Ev("poll", 0, "", wt.elapsed))
       IN wt' = IF wt.elapsed > wt.timeout
                THEN [wt EXCEPT !.pc = "rejected", !.timer = FALSE,
                                !.log = polled \o <<Ev("clearInterval", 0, "", 0),
                                                    Ev("reject", 0, "Timeout waiting for rrweb", 0)>>]
                ELSE IF isRrwebAvailable
                THEN [wt EXCEPT !.pc = "resolved", !.timer = FALSE,
                                !.log = polled \o <<Ev("clearInterval", 0, "", 0),
                                                    Ev("resolve", 0, "", 0)>>]
                ELSE [wt EXCEPT !.lastPoll = wt.elapsed, !.log = polled]
    /\ UNCHANGED <<core, app, cdn, fs>>

\* Poll without the timeout branch
PollNoTimeout ==
    /\ wt.timer
    /\ wt.elapsed - wt.lastPoll >= PollInterval
    /\ LET polled == Append(wt.log, Ev("poll", 0, "", wt.elapsed))
       IN wt' = IF isRrwebAvailable
                THEN [wt EXCEPT !.pc = "resolved", !.timer = FALSE,
                                !.log = polled \o <<Ev("clearInterval", 0, "", 0),
                                                    Ev("resolve", 0, "", 0)>>]
                ELSE [wt EXCEPT !.lastPoll = wt.elapsed, !.log = polled]
    /\ UNCHANGED <<core, app, cdn, fs>>

\* lines 604-612: the interval timer fires, no sooner than PollInterval after
\* it was set or last fired
Poll ==
    /\ wt.timer
    /\ wt.elapsed - wt.lastPoll >= PollInterval
    /\ LET polled == Append(wt.log, Ev("poll", 0, "", wt.elapsed))
       IN wt' = IF isRrwebAvailable
                THEN [wt EXCEPT !.pc = "resolved", !.timer = FALSE,
                                !.log = polled \o <<Ev("clearInterval", 0, "", 0),
                                                    Ev("resolve", 0, "", 0)>>]
                ELSE IF wt.elapsed > wt.timeout
                THEN [wt EXCEPT !.pc = "rejected", !.timer = FALSE,
                                !.log = polled \o <<Ev("clearInterval", 0, "", 0),
                                                    Ev("reject", 0, "Timeout waiting for rrweb", 0)>>]
                ELSE [wt EXCEPT !.lastPoll = wt.elapsed, !.log = polled]
    /\ UNCHANGED <<core, app, cdn, fs>>

\* Date.now() advances while the call is polling
Tick ==
    /\ wt.pc = "polling"
    /\ wt.elapsed < MaxElapsed
    /\ wt' = [wt EXCEPT !.elapsed = @ + 50]
    /\ UNCHANGED <<core, app, cdn, fs>>

\* some script of the page sets or deletes window.rrweb
RrwebChange ==
    /\ rrweb' = ~rrweb
    /\ UNCHANGED <<env, plan, calls, head, net, ldr, got, others>>

InitWait ==
    /\ env = NoEnv
    /\ plan = [c \in Calls |-> NoCall]
    /\ calls = [c \in Calls |-> IdleCall]
    /\ head = <<>>
    /\ net = [m \in Method |-> "throw"]
    /\ rrweb \in BOOLEAN
    /\ ldr = IdleLoader
    /\ got = NotCalled
    /\ OthersIdle

NextWait == WaitCall \/ Poll \/ Tick \/ RrwebChange

SpecWait == InitWait /\ [][NextWait]_vars

\* the interval timer keeps firing and the clock advances
SpecWaitLive == InitWait /\ [][NextWait]_vars /\ WF_vars(Poll) /\ WF_vars(Tick)

----------------------------------------------------------------------------
(* The setup wizard and updateGitignore, src/CDN_IMPLEMENTATION_GUIDE.md:560-803 *)

\* line 788: envEntry, as the lines it adds
envEntry == <<"", "# Environment variables", ".env", ".env.local", ".env.*.local">>

\* line 796: gitignore.includes('.env'), a substring test
IncludesEnv(content) ==
    \E j \in 1..Len(content) : content[j] \in {".env", ".envrc", ".env.local", ".env.*.local"}

\* updateGitignore writing whenever the line '.env' itself is missing
UpdateGitignoreExactLine(file, fails) ==
    IF file.exists /\ fails = "read"
    THEN [exists |-> file.exists, content |-> file.content, wrote |-> FALSE, threw |-> FALSE]
    ELSE IF \A j \in 1..Len(file.content) : file.content[j] # ".env"
         THEN IF fails = "write"
              THEN [exists |-> file.exists, content |-> file.content, wrote |-> FALSE,
                    threw |-> FALSE]
              ELSE [exists |-> TRUE, content |-> file.content \o envEntry, wrote |-> TRUE,
                    threw |-> FALSE]
         ELSE [exists |-> file.exists, content |-> file.content, wrote |-> FALSE,
               threw |-> FALSE]

\* lines 786-803: updateGitignore on the file [exists, content]; fails names
\* the file-system call that throws, if any.  A missing file reads as ''.
updateGitignore(file, fails) ==
    IF file.exists /\ fails = "read"
    THEN [exists |-> file.exists, content |-> file.content, wrote |-> FALSE, threw |-> FALSE]
    ELSE IF ~IncludesEnv(file.content)
         THEN IF fails = "write"
              THEN [exists |-> file.exists, content |-> file.content, wrote |-> FALSE,
                    threw |-> FALSE]
              ELSE [exists |-> TRUE, content |-> file.content \o envEntry, wrote |-> TRUE,
                    threw |-> FALSE]
         ELSE [exists |-> file.exists, content |-> file.content, wrote |-> FALSE,
               threw |-> FALSE]

\* lines 645-690: the wizard once the questions are answered
Setup ==
    /\ fs.runs < MaxRuns
    /\ \E keyMethod \in {"hardcoded", "env"}, autoInstall \in BOOLEAN,
          fails \in {"none", "read", "write"} :
          LET asked == [fs EXCEPT !.runs = @ + 1, !.keyMethod = keyMethod,
                                  !.autoInstall = autoInstall, !.fails = fails]
              r == updateGitignore([exists |-> fs.exists, content |-> fs.content], fails)
          IN fs' = IF autoInstall /\ keyMethod = "env"
                   THEN [asked EXCEPT !.exists = r.exists, !.content = r.content,
                                      !.updates = @ + 1,
                                      !.writes = @ + (IF r.wrote THEN 1 ELSE 0),
                                      !.exit = IF r.threw THEN "exit 1" ELSE "done"]
                   ELSE [asked EXCEPT !.exit = "done"]
    /\ UNCHANGED <<core, app, cdn, wt>>

\* the .gitignore files of the project directory before the wizard runs
Files ==
    {[NoWizard EXCEPT !.exists = TRUE, !.content = content] :
        content \in UNION {[1..n -> {"node_modules", "dist", ".env", ".envrc"}] : n \in 0..MaxLines}}
    \cup {NoWizard}

InitSetup ==
    /\ env = NoEnv
    /\ plan = [c \in Calls |-> NoCall]
    /\ calls = [c \in Calls |-> IdleCall]
    /\ head = <<>>
    /\ net = [m \in Method |-> "throw"]
    /\ rrweb = FALSE
    /\ ldr = IdleLoader
    /\ got = NotCalled
    /\ app = [c \in Calls |-> NoReplay]
    /\ cdn = NoBundle
    /\ wt = NoWait
    /\ fs \in Files

NextSetup == Setup

SpecSetup == InitSetup /\ [][NextSetup]_vars

----------------------------------------------------------------------------
(* loadSessionReplayScript, src/src/browser.js:483-505 *)

\* the scriptUrl the loader is called with
LoaderUrl == <<"https:", "", "cdn.example", "rrweb.min.js">>

\* the position of a method in the methods array
Position(m) == CHOOSE k \in 1..Len(methods) : methods[k] = m

\* NextToStart without the await: all the methods are started together
NextToStartAll(k) == IF k = 0 THEN 1..Len(methods) ELSE {}

\* line 491: the methods the for loop starts once the method at position k has
\* failed (k = 0: at the start of the pass)
NextToStart(k) == IF k < Len(methods) THEN {k + 1} ELSE {}

\* MethodSucceeded without the return: the loop always goes on
MethodSucceededNever(outcome, present) == outcome # outcome /\ present

\* MethodSucceeded without the check of window.rrweb
MethodSucceededUnchecked(outcome, present) == outcome # "throw" /\ present = present

\* lines 493-497: whether the pass returns once a method has settled with
\* `outcome`, window.rrweb then being `present`
MethodSucceeded(outcome, present) == outcome # "throw" /\ present

\* window.rrweb after a method has settled with `outcome`
SymbolAfter(outcome, present) == present \/ outcome = "sym"

RECURSIVE StartEvents(_, _)
StartEvents(K, k) ==
    IF k > Len(methods) THEN <<>>
    ELSE (IF k \in K THEN <<Ev("start", k, methods[k], 0)>> ELSE <<>>) \o StartEvents(K, k + 1)

\* line 493, up to the suspension: the methods at the positions K are called;
\* loadViaScriptTag (lines 512-524) appends its script element at once
StartMethods(l, K) ==
    /\ ldr' = [l EXCEPT !.pc = "running",
                        !.inflight = @ \cup {methods[k] : k \in K},
                        !.log = @ \o StartEvents(K, 1)]
    /\ head' = IF 1 \in K
               THEN Append(head, [src |-> LoaderUrl, call |-> 0, attempt |-> 0])
               ELSE head

\* the call of loadSessionReplayScript, up to its first suspension
LoaderStart ==
    /\ ldr.pc = "idle"
    /\ StartMethods(ldr, NextToStart(0))
    /\ UNCHANGED <<env, plan, calls, net, rrweb, got, others>>

\* the method in flight settles and the loop goes on: lines 492-504
StrategySettle(m) ==
    /\ ldr.pc = "running"
    /\ m \in ldr.inflight
    /\ ldr.log[Len(ldr.log)].ev # "uncaught"
    /\ LET k == Position(m)
           present == SymbolAfter(net[m], rrweb)
           settled == [ldr EXCEPT !.inflight = @ \ {m},
                                  !.log = Append(@, Ev("settle", k, net[m], IF present THEN 1 ELSE 0))]
       IN /\ rrweb' = present
          /\ IF net[m] = "evalthrow"
             THEN /\ ldr' = [ldr EXCEPT !.log = Append(@, Ev("uncaught", k, "eval threw in xhr.onload", 0))]
                  /\ UNCHANGED head
             ELSE IF MethodSucceeded(net[m], present)
             THEN /\ ldr' = [settled EXCEPT !.pc = "returned",
                                !.log = @ \o <<Ev("console.log", k, "loaded successfully", 0),
                                               Ev("return", k, "", 0)>>]
                  /\ UNCHANGED head
             ELSE LET warned == IF net[m] = "throw"
                                THEN [settled EXCEPT !.log = Append(@, Ev("console.warn", k, "method failed", 0))]
                                ELSE settled
                  IN IF NextToStart(k) # {}
                     THEN StartMethods(warned, NextToStart(k))
                     ELSE IF warned.inflight # {}
                          THEN ldr' = warned /\ UNCHANGED head
                          ELSE /\ ldr' = [warned EXCEPT !.pc = "threw",
                                             !.error = Error("All script loading methods failed", 0),
                                             !.log = Append(@, Ev("throw", k, "All script loading methods failed", 0))]
                               /\ UNCHANGED head
    /\ UNCHANGED <<env, plan, calls, net, got, others>>

\* one call of loadSessionReplayScript, on any network, with window.rrweb
\* defined beforehand or not
InitLoader ==
    /\ env = NoEnv
    /\ plan = [c \in Calls |-> NoCall]
    /\ calls = [c \in Calls |-> IdleCall]
    /\ head = <<>>
    /\ net \in Worlds
    /\ rrweb \in BOOLEAN
    /\ ldr = IdleLoader
    /\ got = NotCalled
    /\ OthersIdle

NextLoader ==
    \/ LoaderStart
    \/ \E m \in Method : StrategySettle(m)

SpecLoader == InitLoader /\ [][NextLoader]_vars

----------------------------------------------------------------------------
(* getSessionReplayConfig, src/src/index.js:160-180 *)

MaxDocLen == 3

\* the selector script[src*="/s/"]: the source has the text "/s/" in it
Matches(el) == \E j \in 2..(Len(el.src) - 1) : el.src[j] = "s"

\* whether new URL(src) accepts the source: a scheme, "//" and a valid host
Parses(src) ==
    /\ Len(src) >= 3
    /\ src[1] \in {"http:", "https:"}
    /\ src[2] = ""
    /\ src[3] \notin {"", "["}

\* url.pathname.split('/'): an empty piece, then the pieces after the host
PathParts(src) ==
    <<"">> \o (IF Len(src) > 3 THEN SubSeq(src, 4, Len(src)) ELSE <<"">>)

\* pathParts[k], counted from 0 as the code does
Part(src, k) ==
    IF k + 1 <= Len(PathParts(src)) THEN Str(PathParts(src)[k + 1]) ELSE Absent

\* url.origin
Origin(src) == SubSeq(src, 1, 3)

ReturnsNull == [NotCalled EXCEPT !.res = "null"]
Throws == [NotCalled EXCEPT !.res = "throw"]

\* getSessionReplayConfig without its try/catch
getSessionReplayConfigNoCatch(h) ==
    LET M == {j \in 1..Len(h) : Matches(h[j])}
    IN IF M = {} THEN ReturnsNull
       ELSE LET src == h[CHOOSE j \in M : \A q \in M : j <= q].src
            IN IF ~Parses(src) THEN Throws
               ELSE [res |-> "object", projectKey |-> Part(src, 2),
                     secretKey |-> Part(src, 3), serverUrl |-> Origin(src)]

\* lines 160-180: the result for a document whose script elements are h
getSessionReplayConfig(h) ==
    LET M == {j \in 1..Len(h) : Matches(h[j])}
    IN IF M = {} THEN ReturnsNull
       ELSE LET src == h[CHOOSE j \in M : \A q \in M : j <= q].src
            IN IF ~Parses(src) THEN ReturnsNull
               ELSE [res |-> "object", projectKey |-> Part(src, 2),
                     secretKey |-> Part(src, 3), serverUrl |-> Origin(src)]

\* the sources of the script elements a page may hold
DocSources ==
    {Segs("https://cdn.example/app.js"),
     Segs("http://[/s/a/b.js"),
     Segs("https://custom.example") \o <<"s">>,
     Segs("https://custom.example") \o <<"s", "pk", "sk", "init.js">>,
     Segs("https://custom.example/api") \o <<"s", "pk", "sk", "init.js">>}

\* a script element is added to the document head
Inject ==
    /\ Len(head) < MaxDocLen
    /\ \E src \in DocSources : head' = Append(head, [src |-> src, call |-> 0, attempt |-> 0])
    /\ UNCHANGED <<env, plan, calls, net, rrweb, ldr, got, others>>

\* a call of getSessionReplayConfig
GetConfig ==
    /\ got' = getSessionReplayConfig(head)
    /\ UNCHANGED <<env, plan, calls, head, net, rrweb, ldr, others>>

InitAccessor ==
    /\ env = NoEnv
    /\ plan = [c \in Calls |-> NoCall]
    /\ calls = [c \in Calls |-> IdleCall]
    /\ head = <<>>
    /\ net = [m \in Method |-> "throw"]
    /\ rrweb = FALSE
    /\ ldr = IdleLoader
    /\ got = NotCalled
    /\ OthersIdle

NextAccessor == Inject \/ GetConfig

SpecAccessor == InitAccessor /\ [][NextAccessor]_vars

----------------------------------------------------------------------------
(* Observations the properties are stated over *)

\* the events of a log whose kind is in S, in order
Project(log, S) == SelectSeq(log, LAMBDA x : x.ev \in S)

\* how many events of kind e a log holds
Count(log, e) == Len(Project(log, {e}))

\* the script elements call c has appended to document.head
Appended(c) == SelectSeq(head, LAMBDA el : el.call = c)

\* the config of call c after the merge of lines 73-77
Merged(c) == MergeEnv(plan[c], env)

\* a key that is absent or not a non-empty string
InvalidKey(x) == ~(x.t = "string" /\ x.v # "")

\* call c has run its attempts out
Exhausted(c) == calls[c].pc = "rejected" /\ Count(calls[c].log, "append") > 0

\* log a is a prefix of log b
IsPrefix(a, b) == Len(a) <= Len(b) /\ SubSeq(b, 1, Len(a)) = a

\* the appends and delays of a call whose attempts all fail, as <<kind, attempt, number>>
FailingSchedule ==
    <<<<"append", 1, 0>>, <<"delay", 1, 1000>>, <<"append", 2, 0>>,
      <<"delay", 2, 2000>>, <<"append", 3, 0>>>>

Schedule(log) ==
    LET P == Project(log, {"append", "delay"})
    IN [j \in 1..Len(P) |-> <<P[j].ev, P[j].attempt, P[j].num>>]

----------------------------------------------------------------------------
(* Properties of initSessionReplay *)

\* C1: a call whose merged config lacks a projectKey or secretKey that is a
\* non-empty string is rejected, and at that moment it has appended no script
\* element, started no attempt and taken no backoff delay.
C1_ValidationRejectsBeforeLoad ==
    \A c \in Calls :
        (calls[c].pc # "idle"
            /\ (InvalidKey(Merged(c).projectKey) \/ InvalidKey(Merged(c).secretKey)))
        => /\ calls[c].pc = "rejected"
           /\ calls[c].error.attempt = 0
           /\ Appended(c) = <<>>
           /\ Project(calls[c].log, {"append", "delay", "onError", "onSuccess"}) = <<>>

\* a call was rejected for a secretKey that is not a string although the
\* environment supplied both keys
C1_Witness ==
    \E c \in Calls :
        /\ calls[c].pc = "rejected"
        /\ plan[c].secretKey = Num("7")
        /\ detectEnvironmentVariables(env) # EmptyObject
        /\ head = <<>>

\* C2: a call never starts a 4th attempt, its appends and delays follow the
\* schedule attempt 1, 1000 ms, attempt 2, 2000 ms, attempt 3, and a call whose
\* attempts have all failed has made exactly 3 attempts with exactly those two
\* delays, none of them after attempt 3.
C2_ThreeAttemptsLinearBackoff ==
    \A c \in Calls :
        /\ IsPrefix(Schedule(calls[c].log), FailingSchedule)
        /\ Len(Appended(c)) = Count(calls[c].log, "append")
        /\ Exhausted(c) => Schedule(calls[c].log) = FailingSchedule

\* a call has failed after its third attempt
C2_Witness ==
    \E c \in Calls : Exhausted(c) /\ Len(Appended(c)) = 3

\* C3: in a call whose 3 attempts have all failed and that was given an onError
\* callback, onError has been invoked exactly once, with the message naming 3 attempts.
C3_OnErrorOnce ==
    \A c \in Calls :
        (Exhausted(c) /\ Truthy(calls[c].config.onError))
        => /\ Count(calls[c].log, "onError") = 1
           /\ Project(calls[c].log, {"onError"})[1].num = 3

\* C4: once an attempt has loaded, onSuccess (if supplied) has been invoked
\* exactly once, the promise is resolved, and the resolution is the last thing
\* the call does: its attempts are those up to the one that loaded, and no
\* delay follows it.
C4_SuccessStopsRetrying ==
    \A c \in Calls :
        LET log == calls[c].log
            loaded == Project(log, {"onSuccess", "console.log"})
        IN /\ Count(log, "resolve") > 0 <=> calls[c].pc = "resolved"
           /\ Len(loaded) > 0 =>
                /\ calls[c].pc = "resolved"
                /\ Len(loaded) = 1
                /\ loaded[1].ev = (IF Truthy(calls[c].config.onSuccess)
                                   THEN "onSuccess" ELSE "console.log")
                /\ Count(log, "resolve") = 1
                /\ log[Len(log)].ev = "resolve"
                /\ log[Len(log) - 1] = loaded[1]
                /\ Count(log, "append") = loaded[1].attempt
                /\ Len(Appended(c)) = loaded[1].attempt
                /\ Count(log, "delay") = loaded[1].attempt - 1

\* a call given an onSuccess callback has resolved on its third attempt
C4_Witness ==
    \E c \in Calls :
        /\ calls[c].pc = "resolved"
        /\ calls[c].i = 2
        /\ Count(calls[c].log, "onSuccess") = 1

\* C5: in a call whose promise is resolved onError has never been invoked, so
\* onSuccess and onError are never both invoked in one call.
C5_NoErrorSurfacedOnSuccess ==
    \A c \in Calls :
        /\ calls[c].pc = "resolved" => Count(calls[c].log, "onError") = 0
        /\ ~(Count(calls[c].log, "onSuccess") > 0 /\ Count(calls[c].log, "onError") > 0)

OnlyImportWorks(w) ==
    /\ w["tag"] = "throw"
    /\ w["fetch"] = "throw"
    /\ w["xhr"] = "throw"
    /\ w["import"] = "sym"

\* the latest attempt of call c has settled (net is the network it ran on)
AttemptSettled(c) == calls[c].pc \in {"backoff", "resolved", "rejected"} /\ Appended(c) # <<>>

----------------------------------------------------------------------------
(* Properties of loadSessionReplayScript *)

\* the starts and settlements of the loader's methods, in order
Steps == Project(ldr.log, {"start", "settle"})

\* a settlement in which the method completed with window.rrweb present
CompletedPresent(x) == x.ev = "settle" /\ x.text # "throw" /\ x.num = 1

\* a settlement in which the method completed with window.rrweb absent
CompletedAbsent(x) == x.ev = "settle" /\ x.text # "throw" /\ x.num = 0

\* C8: once a method has completed with window.rrweb present the pass has
\* returned successfully and no method was started after it; when tag injection
\* completes with the symbol, tag injection is the only method started.
C8_FirstSuccessStopsChain ==
    LET log == ldr.log
    IN /\ \A j \in 1..Len(log) :
            CompletedPresent(log[j]) =>
                /\ ldr.pc = "returned"
                /\ ldr.inflight = {}
                /\ \A h \in (j + 1)..Len(log) : log[h].ev # "start"
       /\ (Len(Steps) >= 2 /\ CompletedPresent(Steps[2])) =>
            [j \in 1..Count(log, "start") |-> Project(log, {"start"})[j].text] = <<"tag">>

\* tag injection has exposed a symbol that was absent before and the pass has returned
C8_Witness ==
    /\ ldr.pc = "returned"
    /\ net["tag"] = "sym"
    /\ Count(ldr.log, "start") = 1
    /\ Len(head) = 1

\* C9: the methods start in the order tag, fetch, xhr, import, each at most
\* once, each after the settlement of the one before, and never two in flight.
C9_StrictlySequential ==
    /\ Cardinality(ldr.inflight) <= 1
    /\ Len(Steps) <= 2 * Len(methods)
    /\ \A j \in 1..Len(Steps) :
          /\ Steps[j].ev = (IF j % 2 = 1 THEN "start" ELSE "settle")
          /\ Steps[j].attempt = (j + 1) \div 2
          /\ Steps[j].ev = "start" => Steps[j].text = methods[(j + 1) \div 2]
    /\ ldr.pc = "running" <=> Len(Steps) % 2 = 1
    /\ ldr.pc = "running" => ldr.inflight = {methods[(Len(Steps) + 1) \div 2]}

\* all four methods have been started and the last one is in flight
C9_Witness ==
    /\ ldr.pc = "running"
    /\ ldr.inflight = {"import"}
    /\ Count(ldr.log, "start") = 4

\* C10: the pass has returned only with window.rrweb present, and a method
\* that completed without error while the symbol was absent was treated as a
\* failure: the next method was started, or after the last one the pass threw.
C10_SuccessRequiresSymbol ==
    LET log == ldr.log
    IN /\ ldr.pc = "returned" => rrweb
       /\ \A j \in 1..Len(log) :
            (log[j].ev = "return") => CompletedPresent(log[j - 2])
       /\ \A j \in 1..Len(log) :
            CompletedAbsent(log[j]) =>
                /\ ldr.pc # "returned" \/ Count(log, "start") > log[j].attempt
                /\ j < Len(log)
                /\ IF log[j].attempt < Len(methods)
                   THEN log[j + 1] = Ev("start", log[j].attempt + 1, methods[log[j].attempt + 1], 0)
                   ELSE log[j + 1].ev = "throw" /\ ldr.pc = "threw"

\* tag injection completed without the symbol, and a later method exposed it
C10_Witness ==
    /\ ldr.pc = "returned"
    /\ net["tag"] = "nosym"
    /\ Count(ldr.log, "start") > 1
    /\ rrweb

\* a step of the loader's log in which a method failed: it threw, it completed
\* with window.rrweb absent, or its handler threw without settling it
MethodFailed(x) ==
    \/ x.ev = "settle" /\ (x.text = "throw" \/ x.num = 0)
    \/ x.ev = "uncaught"

\* C11: the pass has failed with the all-methods-failed error exactly when each
\* of the four methods threw or completed with the symbol absent, and only
\* after all four were started; and whenever a method other than the last has
\* failed, the next one has been started.
C11_FailsExactlyWhenAllFail ==
    LET log == ldr.log
    IN /\ ldr.pc = "threw" <=>
            \A k \in 1..Len(methods) :
                \E j \in 1..Len(log) : log[j].attempt = k /\ MethodFailed(log[j])
       /\ ldr.pc = "threw" =>
            /\ Count(log, "start") = Len(methods)
            /\ ldr.error = Error("All script loading methods failed", 0)
       /\ \A j \in 1..Len(log) :
            (MethodFailed(log[j]) /\ log[j].attempt < Len(methods)) =>
                \E h \in (j + 1)..Len(log) :
                    log[h].ev = "start" /\ log[h].attempt = log[j].attempt + 1

----------------------------------------------------------------------------
(* Properties of the config resolution *)

\* the value detectEnvironmentVariables supplies for key k
EnvDerived(k) == detectEnvironmentVariables(env)[k]

\* C12: for projectKey and secretKey independently, the value a call uses is
\* the caller's value when the caller supplied a non-empty string for the key,
\* and the environment-derived value when the caller did not.
C12_ExplicitElseEnvironment ==
    \A c \in Calls : \A k \in EnvKeys :
        calls[c].pc # "idle" =>
            calls[c].config[k] = (IF ~InvalidKey(plan[c][k]) THEN plan[c][k] ELSE EnvDerived(k))

\* the prefixes under which both keys are set
Complete(e) ==
    {p \in 1..Len(prefixes) : e[p].projectKey # Absent /\ e[p].secretKey # Absent}

\* C13: when the caller supplies no keys, both resolved keys are those of the
\* first prefix, in the order REACT_APP_, NEXT_PUBLIC_, VITE_, PUBLIC_, under
\* which both keys are set; when no prefix has both, the environment gives
\* nothing and the call is rejected.
C13_FirstCompletePrefixWins ==
    \A c \in Calls :
        (calls[c].pc # "idle" /\ plan[c].projectKey = Absent /\ plan[c].secretKey = Absent)
        => IF Complete(env) = {}
           THEN /\ calls[c].config.projectKey = Absent
                /\ calls[c].config.secretKey = Absent
                /\ calls[c].pc = "rejected"
           ELSE LET p == CHOOSE q \in Complete(env) : \A r \in Complete(env) : q <= r
                IN /\ calls[c].config.projectKey = EnvValue(p, "projectKey")
                   /\ calls[c].config.secretKey = EnvValue(p, "secretKey")
                   /\ calls[c].pc = "loading"
                   /\ head[Len(head)].src[Len(head[Len(head)].src) - 2] = prefixes[p] \o "projectKey"
                   /\ head[Len(head)].src[Len(head[Len(head)].src) - 1] = prefixes[p] \o "secretKey"

\* REACT_APP_ sets only the project key, NEXT_PUBLIC_ only the secret key, VITE_
\* and PUBLIC_ both, and the call has started with the keys of VITE_
C13_Witness ==
    \E c \in Calls :
        /\ calls[c].pc = "loading"
        /\ env[1].projectKey # Absent /\ env[1].secretKey = Absent
        /\ env[2].projectKey = Absent /\ env[2].secretKey # Absent
        /\ Complete(env) = {3, 4}
        /\ calls[c].config.projectKey = Str("VITE_projectKey")

----------------------------------------------------------------------------
(* Properties of the injected elements *)

\* the server a call loads from: the caller's, or the production endpoint
ServerOf(c) ==
    IF plan[c].serverUrl = Absent
    THEN <<"https:", "", "rrweb-ingest-825071668012.us-central1.run.app">>
    ELSE Segs(plan[c].serverUrl.v)

\* C14: every script element a call appends, on every attempt, has the source
\* serverUrl/s/projectKey/secretKey/init.js of the call's resolved config, the
\* server being the production endpoint when the caller omitted serverUrl.
C14_SrcBuiltFromResolvedConfig ==
    \A j \in 1..Len(head) :
        LET c == head[j].call
        IN head[j].src = ServerOf(c) \o <<"s", calls[c].config.projectKey.v,
                                          calls[c].config.secretKey.v, "init.js">>

\* a call that omitted serverUrl and took its keys from the environment has
\* appended its third element, and a call with its own server has appended one
C14_Witness ==
    \/ /\ Len(head) = 3
       /\ plan[1].serverUrl = Absent /\ plan[1].projectKey = Absent
       /\ head[3].src = <<"https:", "", "rrweb-ingest-825071668012.us-central1.run.app",
                          "s", "NEXT_PUBLIC_projectKey", "NEXT_PUBLIC_secretKey", "init.js">>
    \/ /\ Len(head) = 2
       /\ head[2].src = <<"https:", "", "custom.example", "s", "pk", "sk", "init.js">>

\* C17: once a call has succeeded, the document holds at most one script
\* element with that call's load URL, whatever number of attempts it needed.
C17_OneElementPerSuccess ==
    \A c \in Calls :
        calls[c].pc = "resolved" =>
            Cardinality({j \in 1..Len(head) : head[j].src = ScriptSrc(calls[c].config)}) <= 1

----------------------------------------------------------------------------
(* Properties of getSessionReplayConfig *)

\* the first script element of the document that the selector matches has a
\* source new URL() rejects
FirstMatchUnparsable(h) ==
    \E j \in 1..Len(h) :
        /\ Matches(h[j]) /\ ~Parses(h[j].src)
        /\ \A q \in 1..(j - 1) : ~Matches(h[q])

\* C16: a call of getSessionReplayConfig returns null when no script element
\* of the document has /s/ in its source, never throws to its caller (a source
\* that fails to parse gives null), and leaves the document unchanged.
C16_NullWithoutMatchNeverThrows ==
    [][got' # got =>
          /\ head' = head
          /\ got'.res \in {"null", "object"}
          /\ (\A j \in 1..Len(head) : ~Matches(head[j])) => got'.res = "null"
          /\ FirstMatchUnparsable(head) => got'.res = "null"]_vars

\* the call has returned null for a document whose first matching script has
\* an unparsable source, after a script without /s/ in its source
C16_Witness ==
    /\ got.res = "null"
    /\ Len(head) = 2
    /\ ~Matches(head[1])
    /\ Matches(head[2]) /\ ~Parses(head[2].src)


\* the triple call c was given, as getSessionReplayConfig reports a triple
TripleOf(c) ==
    [res |-> "object", projectKey |-> plan[c].projectKey,
     secretKey |-> plan[c].secretKey, serverUrl |-> ServerOf(c)]

\* C15: when a call with a valid {projectKey, secretKey, serverUrl} resolves,
\* whatever calls were made before it, getSessionReplayConfig called right
\* then returns exactly that call's triple.
C15_RoundTrip ==
    [][\A c \in Calls :
          (calls[c].pc = "loading" /\ calls'[c].pc = "resolved")
              => getSessionReplayConfig(head') = TripleOf(c)]_vars

----------------------------------------------------------------------------
(* Properties of overlapping calls *)

\* the attempts call c has started
Attempts(c) == Count(calls[c].log, "append")

\* calls c and d overlapped: d appended an element between two elements of c
Overlapped(c, d) ==
    \E j, q, r \in 1..Len(head) :
        j < q /\ q < r /\ head[j].call = c /\ head[q].call = d /\ head[r].call = c

\* C20: two calls that overlap with the same URL are not coalesced: each call
\* that has started has appended one script element of its own per attempt it
\* started (at least one), each is settled by the events of its own attempts
\* only, and a step of one call changes nothing of the other.
C20_NoCoalescing ==
    /\ [](\A c \in PageCalls :
            calls[c].pc # "idle" =>
                /\ Attempts(c) >= 1
                /\ Len(Appended(c)) = Attempts(c)
                /\ \A j \in 1..Len(Appended(c)) : Appended(c)[j].attempt = j
                /\ calls[c].pc = "resolved" =>
                      calls[c].log[Len(calls[c].log)] = Ev("resolve", Attempts(c), "", 0)
                /\ calls[c].pc = "rejected" =>
                      /\ Attempts(c) = maxRetries
                      /\ Count(calls[c].log, "console.error") = maxRetries + 1)
    /\ [][\A c, d \in PageCalls :
            (c # d /\ calls'[c] # calls[c]) => calls'[d] = calls[d]]_vars

\* two calls with the same URL overlapped; the document holds elements with
\* that URL from both, one call has resolved and the other has been rejected
C20_Witness ==
    \E c, d \in PageCalls :
        /\ c # d
        /\ ScriptSrc(calls[c].config) = ScriptSrc(calls[d].config)
        /\ Overlapped(c, d)
        /\ calls[d].pc = "resolved"
        /\ calls[c].pc = "rejected"
        /\ \E j, q \in 1..Len(head) :
              head[j].call = c /\ head[q].call = d /\ head[j].src = head[q].src

----------------------------------------------------------------------------
(* Progress and the life cycle of a call *)

Settled(c) == calls[c].pc \in {"resolved", "rejected"}

\* the settlements of the promise of call c
Settlements(c) == Count(calls[c].log, "resolve") + Count(calls[c].log, "reject")

AppendedIn(h, c) == SelectSeq(h, LAMBDA el : el.call = c)

\* C19: a call moves only from Validating (idle) to Attempting(1) or, on a
\* validation error, to Failed; from Attempting(n) to Succeeded; from
\* Attempting(n) to Retrying (backoff) to Attempting(n+1) for n in {1, 2}; from
\* Attempting(3) to Failed.  Succeeded and Failed are terminal: nothing of the
\* call and none of its elements changes after them.  The attempt number
\* never decreases and never exceeds 3.
C19_LifeCycle ==
    [][\A c \in Calls :
          LET a == calls[c]
              b == calls'[c]
              n == Count(a.log, "append")
              n2 == Count(b.log, "append")
          IN /\ a # b =>
                  \/ a.pc = "idle" /\ b.pc = "loading" /\ n2 = 1 /\ b.i = 0
                  \/ a.pc = "idle" /\ b.pc = "rejected" /\ n2 = 0
                        /\ Validate(Merged(c)) # NoError
                  \/ a.pc = "loading" /\ b.pc = "resolved" /\ n2 = n
                  \/ a.pc = "loading" /\ b.pc = "backoff" /\ n \in {1, 2} /\ n2 = n
                  \/ a.pc = "backoff" /\ b.pc = "loading" /\ n2 = n + 1 /\ b.i = n
                  \/ a.pc = "loading" /\ b.pc = "rejected" /\ n = 3 /\ n2 = 3
             /\ a.pc \in {"resolved", "rejected"} =>
                  /\ b = a
                  /\ AppendedIn(head', c) = AppendedIn(head, c)
             /\ a.pc = "loading" => n = a.i + 1
             /\ n <= n2 /\ n2 <= 3]_vars

\* a call has gone through Attempting(1), Retrying, Attempting(2), Retrying and
\* Attempting(3) and has succeeded there
C19_Witness ==
    \E c \in Calls :
        /\ calls[c].pc = "resolved"
        /\ Count(calls[c].log, "append") = 3
        /\ Count(calls[c].log, "delay") = 2

----------------------------------------------------------------------------
(* Properties of SessionReplayPlugin.install *)

\* C21: install never rejects; $replay is {initialized: true, config} exactly
\* when the initSessionReplay call resolved and {initialized: false, error:
\* message} exactly when it rejected; $replay is written only once the init
\* promise has settled, never while an attempt or a backoff is pending.
C21_InstallReflectsSettlement ==
    /\ [](\A c \in Calls :
            /\ app[c].install # "rejected"
            /\ app[c].initialized = "true" =>
                  /\ calls[c].pc = "resolved"
                  /\ app[c].config = plan[c]
            /\ app[c].initialized = "false" =>
                  /\ calls[c].pc = "rejected"
                  /\ app[c].error = calls[c].error.msg
            /\ app[c].install = "fulfilled" => app[c].initialized \in {"true", "false"}
            /\ calls[c].pc \in {"idle", "loading", "backoff"} => app[c] = NoReplay)
    /\ [][\A c \in Calls :
            app'[c] # app[c] =>
                /\ calls[c].pc \in {"resolved", "rejected"}
                /\ calls'[c] = calls[c]
                /\ app[c] = NoReplay]_vars

\* install has written {initialized: false, error} after three failed attempts
C21_Witness ==
    \E c \in Calls :
        /\ app[c].initialized = "false"
        /\ app[c].install = "fulfilled"
        /\ app[c].error = "Failed to load session replay script"
        /\ Count(calls[c].log, "append") = maxRetries

----------------------------------------------------------------------------
(* Properties of the argument check *)

\* C26: a call whose config is not an object (null, a string, a number) is
\* rejected with the 'Configuration object is required' error and appends no
\* script element, whatever the environment holds.
C26_NonObjectRejected ==
    \A c \in Calls :
        (plan[c] \in {NullArg, StringArg, NumberArg} /\ calls[c].pc # "idle") =>
            /\ calls[c].pc = "rejected"
            /\ calls[c].error.msg = "Configuration object is required"
            /\ Appended(c) = <<>>

----------------------------------------------------------------------------
(* Properties of the document *)

\* the load attempts call c has started, from where the call stands
Started(c) ==
    CASE calls[c].pc = "idle" -> 0
      [] calls[c].pc = "rejected" -> calls[c].i
      [] OTHER -> calls[c].i + 1

\* C24: the script elements a call has appended are always as many as the
\* load attempts it has started, at most 3; the element of a failed attempt
\* is never removed, neither before the retry nor at the final failure.
C24_ElementsEqualAttempts ==
    /\ [](\A c \in Calls :
            /\ Len(Appended(c)) = Started(c)
            /\ Started(c) <= maxRetries)
    /\ [][IsPrefix(head, head')]_vars

\* the three attempts of a call have failed and their three elements are all
\* still in the document, in the order of the attempts
C24_Witness ==
    \E c \in Calls :
        /\ calls[c].pc = "rejected"
        /\ Len(head) = maxRetries
        /\ \A j \in 1..maxRetries : head[j].call = c /\ head[j].attempt = j

----------------------------------------------------------------------------
(* Properties of calls whose callbacks throw *)

\* C25: the promise of a call settles even when a callback of the caller
\* throws: whether onSuccess throws when the script has loaded or onError
\* throws when an attempt has failed, the call eventually resolves or rejects.
C25_SettlesDespiteThrowingCallback ==
    \A c \in Calls : (calls[c].pc # "idle") ~> Settled(c)

----------------------------------------------------------------------------
(* Properties of the CDN bundle *)

\* C22: when the bundle's tag carries data-project-key and data-secret-key and
\* its URL has no projectKey or secretKey parameter (and does not switch
\* auto-initialization off), auto-initialization calls init with the keys of
\* the data attributes, and with data-server-url as serverUrl when the tag
\* carries it and the URL has no serverUrl parameter.
C22_DataAttributesReachInit ==
    (/\ cdn.runs > 0
     /\ cdn.named
     /\ cdn.autoInit # Str("false")
     /\ cdn.data.projectKey # Absent /\ cdn.data.secretKey # Absent
     /\ cdn.url.projectKey = Null /\ cdn.url.secretKey = Null)
    => /\ Len(cdn.inits) = 1
       /\ cdn.inits[1].projectKey = cdn.data.projectKey
       /\ cdn.inits[1].secretKey = cdn.data.secretKey
       /\ (cdn.data.serverUrl # Absent /\ cdn.url.serverUrl = Null)
             => cdn.inits[1].serverUrl = cdn.data.serverUrl


\* C23: autoInitialize runs once per load of the bundle: at once when the
\* document is not loading as the bundle is evaluated, otherwise at
\* DOMContentLoaded and never before it; init is auto-invoked at most once, and
\* never when the URL carries autoInit=false or when neither the URL nor the
\* data attributes give a projectKey.
C23_AutoInitializeOnce ==
    /\ [](/\ cdn.runs <= 1
          /\ cdn.runs = 1 <=> cdn.pc = "done"
          /\ cdn.runs = 1 => cdn.readyState # "loading"
          /\ cdn.pc = "listening" => cdn.readyState = "loading"
          /\ Len(cdn.inits) <= cdn.runs
          /\ cdn.autoInit = Str("false") => cdn.inits = <<>>
          /\ (~Truthy(cdn.url.projectKey) /\ ~Truthy(cdn.data.projectKey)) => cdn.inits = <<>>)
    /\ [][cdn'.runs # cdn.runs =>
            \/ /\ cdn.pc = "absent" /\ cdn.readyState # "loading"
               /\ cdn'.when = "immediately"
            \/ /\ cdn.pc = "listening"
               /\ cdn.readyState = "loading" /\ cdn'.readyState = "interactive"
               /\ cdn'.when = "DOMContentLoaded"]_vars

\* the bundle was evaluated while the document was loading, and autoInitialize
\* ran at DOMContentLoaded and called init
C23_Witness ==
    /\ cdn.runs = 1
    /\ cdn.when = "DOMContentLoaded"
    /\ Len(cdn.inits) = 1
    /\ calls[1].pc = "loading"

\* C27: a failed initialization never surfaces as an uncaught error: when the
\* call of init that auto-initialization made is rejected (by the validation
\* or after all attempts), its promise has a rejection handler.
C27_NoUnhandledRejection ==
    (cdn.inits # <<>> /\ calls[1].pc = "rejected") => cdn.handled

----------------------------------------------------------------------------
(* Properties of waitForRrweb *)

WaitSettled == wt.pc \in {"resolved", "rejected"}

\* a poll runs in this step
PollStep == wt.pc = "polling" /\ Count(wt'.log, "poll") = Count(wt.log, "poll") + 1

\* C28: waitForRrweb resolves only when window.rrweb is available, and rejects
\* with the timeout error only at a poll at which more than timeout ms have
\* elapsed and rrweb is unavailable (a poll that sees rrweb available and the
\* timeout exceeded resolves); it settles once, and once it has settled the
\* timer is cleared and no further poll runs.
C28_WaitSettlesCorrectly ==
    /\ [][/\ (wt'.pc = "resolved" /\ wt.pc # "resolved") => isRrwebAvailable
          /\ (wt'.pc = "rejected" /\ wt.pc # "rejected") =>
                /\ PollStep
                /\ ~isRrwebAvailable
                /\ wt.elapsed > wt.timeout
                /\ wt'.log[Len(wt'.log)] = Ev("reject", 0, "Timeout waiting for rrweb", 0)
          /\ WaitSettled => wt' = wt]_vars
    /\ [](/\ WaitSettled => ~wt.timer
          /\ Count(wt.log, "resolve") + Count(wt.log, "reject")
                = (IF WaitSettled THEN 1 ELSE 0))

\* a poll that saw rrweb available after the timeout had passed has resolved
C28_Witness ==
    /\ wt.pc = "resolved"
    /\ wt.elapsed > wt.timeout
    /\ Count(wt.log, "poll") >= 2

\* C29: while the interval timer keeps firing and the clock advances, every
\* call of waitForRrweb eventually settles: at once, with no timer created,
\* when rrweb is available at the call; otherwise at the first poll at which
\* rrweb is available or more than timeout ms have elapsed.
C29_WaitEventuallySettles ==
    /\ (wt.pc # "idle") ~> WaitSettled
    /\ [][/\ (wt.pc = "idle" /\ wt'.pc # "idle") =>
                IF isRrwebAvailable
                THEN wt'.pc = "resolved" /\ ~wt'.timer /\ Count(wt'.log, "setInterval") = 0
                ELSE wt'.pc = "polling" /\ wt'.timer
          /\ PollStep =>
                (wt'.pc \in {"resolved", "rejected"}
                    <=> (isRrwebAvailable \/ wt.elapsed > wt.timeout))
          /\ (wt.pc = "polling" /\ wt'.pc # "polling") => PollStep]_vars

\* the call was made without rrweb, polled in vain, and was rejected at the
\* first poll after the timeout
C29_Witness ==
    /\ wt.pc = "rejected"
    /\ wt.timeout = 150
    /\ Count(wt.log, "poll") = 2
    /\ wt.elapsed = 200

----------------------------------------------------------------------------
(* Properties of updateGitignore *)

\* C30: updateGitignore writes .gitignore only when the content does not
\* contain '.env'; the write keeps the old content as a prefix and appends the
\* env entry; a second call leaves the file unchanged.  The wizard calls it
\* only when the key method is 'env' and code generation was confirmed, and a
\* file-system error in it never aborts the wizard.
C30_GitignoreAppendOnce ==
    /\ [][/\ (fs'.content # fs.content \/ fs'.exists # fs.exists) =>
                /\ ~IncludesEnv(fs.content)
                /\ IsPrefix(fs.content, fs'.content)
                /\ fs'.content = fs.content \o envEntry
                /\ fs'.exists
                /\ fs'.writes = fs.writes + 1
          /\ fs'.writes # fs.writes => fs'.content # fs.content
          /\ fs.writes > 0 => (fs'.content = fs.content /\ fs'.writes = fs.writes)
          /\ fs'.updates # fs.updates => (fs'.keyMethod = "env" /\ fs'.autoInstall)
          /\ fs'.runs # fs.runs => fs'.exit = "done"]_vars
    /\ [](fs.writes <= 1 /\ fs.exit # "exit 1")

\* the wizard has run twice with 'env' and confirmed code generation on a
\* project without '.env' in its .gitignore: the first run wrote, the second
\* did not
C30_Witness ==
    /\ fs.runs = 2
    /\ fs.updates = 2
    /\ fs.writes = 1
    /\ fs.fails = "none"
    /\ fs.content = <<"node_modules">> \o envEntry

====
